---- MODULE Spec2Model ----
(***************************************************************************)
(* Model of strategy/sushi-polygon-ema.py: the decide_trades cycle of the  *)
(* EMA crossover strategy, the position it drives through PositionManager  *)
(* and the runner that executes the returned trades between cycles.        *)
(*                                                                         *)
(* Numbers.  Prices are small integers.  EMA values are exact rationals    *)
(* [nan, num, den] in lowest terms; NaN is the value pandas puts in the    *)
(* warm-up prefix of a series, and every comparison with NaN is False, as  *)
(* in Python.  POSITION_SIZE and STOP_LOSS_PCT are kept as integer         *)
(* hundredths and thousandths.  Timestamps are cycle numbers (hours).      *)
(***************************************************************************)
EXTENDS Integers, Sequences, FiniteSets

\* ---------------------------------------------------------------- bounds
\* Longest candle window the candle source hands out (never above BATCH_SIZE).
MaxCandles == 11
\* Available cash is drawn from 1..MaxCash.
MaxCash == 2
\* Last cycle timestamp of a run.
MaxTime == 2
\* Most trade records one PositionManager call hands back.
MaxRecords == 2

\* ------------------------------------------------------ program constants
POSITION_SIZE == 70
BATCH_SIZE == 90
SLOW_EMA_CANDLE_COUNT == 10
FAST_EMA_CANDLE_COUNT == 3
START_AT == 1
STOP_LOSS_PCT == 993

\* ------------------------------------------------------------- arithmetic
RECURSIVE GCD(_, _)
GCD(a, b) == IF b = 0 THEN a ELSE GCD(b, a % b)

NaN == [nan |-> TRUE, num |-> 0, den |-> 1]

\* The rational n/d (d > 0) in lowest terms.
Val(n, d) ==
    CHOOSE v \in { [nan |-> FALSE, num |-> n \div g, den |-> d \div g] : g \in {GCD(n, d)} } : TRUE

\* Python's a < b on floats: False as soon as one side is NaN.
Lt(a, b) == ~a.nan /\ ~b.nan /\ a.num * b.den < b.num * a.den

\* Python's a > b on floats.
Gt(a, b) == Lt(b, a)

\* series.iloc[-k]
Iloc(s, k) == s[Len(s) - k + 1]

RECURSIVE SumTo(_, _)
SumTo(s, n) == IF n = 0 THEN 0 ELSE s[n] + SumTo(s, n - 1)

\* ------------------------------------------------------------ EMA engine
\* The series pandas_ta.ema builds when the input is long enough: NaN for
\* the first length-1 points, the simple average of the first length points
\* at index length, then y[i] = (2*x[i] + (length-1)*y[i-1]) / (length+1).
RECURSIVE EwmMean(_, _, _)
EwmMean(close, length, i) ==
    IF i < length THEN [j \in 1..i |-> NaN]
    ELSE IF i = length
         THEN Append([j \in 1..(i - 1) |-> NaN], Val(SumTo(close, length), length))
         ELSE LET prev == EwmMean(close, length, i - 1)
                  y    == prev[i - 1]
              IN  Append(prev, Val(2 * close[i] * y.den + (length - 1) * y.num,
                                   (length + 1) * y.den))

\* Variant: the series is computed without the length check, so a short input
\* gives an all-NaN series instead of None.
ema_noLengthCheck(close, length) ==
    [none |-> FALSE, vals |-> EwmMean(close, length, Len(close))]

\* ema(close_prices, length=...): None when the input has fewer than length
\* points, otherwise a series of the input's own length.
ema(close, length) ==
    IF Len(close) < length
    THEN [none |-> TRUE, vals |-> <<>>]
    ELSE [none |-> FALSE, vals |-> EwmMean(close, length, Len(close))]

\* ------------------------------------------------------- decide_trades
\* Variant: only the fast series is tested before the series are indexed.
InsufficientData_fastOnly(slow, fast) ==
    fast.none \/ Len(fast.vals) < 2

\* The two early returns of decide_trades.
InsufficientData(slow, fast) ==
    \/ slow.none \/ fast.none
    \/ Len(slow.vals) < 2 \/ Len(fast.vals) < 2

\* Variant: the slow crossover as a plain two-point crossing.
slow_ema_crossover_twoPoint(close, slow) ==
    Lt(Val(Iloc(close, 2), 1), Iloc(slow, 2)) /\ Gt(Val(Iloc(close, 1), 1), Iloc(slow, 1))

slow_ema_crossover(close, slow) ==
    Lt(Val(Iloc(close, 3), 1), Iloc(slow, 2)) /\ Gt(Val(Iloc(close, 1), 1), Iloc(slow, 1))

slow_ema_crossunder(close, slow) ==
    Gt(Val(Iloc(close, 2), 1), Iloc(slow, 2)) /\ Lt(Val(Iloc(close, 1), 1), Iloc(slow, 1))

fast_ema_crossunder(close, fast) ==
    Gt(Val(Iloc(close, 2), 1), Iloc(fast, 2)) /\ Lt(Val(Iloc(close, 1), 1), Iloc(fast, 1))

\* Variant: the portfolio never reports an open position.
is_any_open_never(open_positions) == FALSE

\* Variant: the test of the position state is inverted.
is_any_open_inverted(open_positions) == open_positions = 0

\* Variant: a single open position is not reported.
is_any_open_many(open_positions) == open_positions > 1

\* not position_manager.is_any_open()
is_any_open(open_positions) == open_positions > 0

\* Variant: the bootstrap rule without the price test.
OpenCondition_noPrice(crossunder, price_latest, slow_ema_latest, ts) ==
    crossunder \/ ts = START_AT

\* Variant: the bootstrap rule without the START_AT test.
OpenCondition_anyTime(crossunder, price_latest, slow_ema_latest, ts) ==
    crossunder \/ Lt(price_latest, slow_ema_latest)

\* Variant: the buy condition read as (a or b) and c.
OpenCondition_orFirst(crossunder, price_latest, slow_ema_latest, ts) ==
    (crossunder \/ Lt(price_latest, slow_ema_latest)) /\ ts = START_AT

\* The condition of the buy branch; `and` binds tighter than `or`.
OpenCondition(crossunder, price_latest, slow_ema_latest, ts) ==
    crossunder \/ (Lt(price_latest, slow_ema_latest) /\ ts = START_AT)

\* Variant: the sell condition without the slow crossover.
CloseCondition_noCrossover(crossover, fast_crossunder, fast_ema_latest, slow_ema_latest) ==
    fast_crossunder /\ Gt(fast_ema_latest, slow_ema_latest)

\* Variant: the sell condition without the fast-above-slow guard.
CloseCondition_unguarded(crossover, fast_crossunder, fast_ema_latest, slow_ema_latest) ==
    crossover \/ fast_crossunder

\* The condition of the sell branch.
CloseCondition(crossover, fast_crossunder, fast_ema_latest, slow_ema_latest) ==
    crossover \/ (fast_crossunder /\ Gt(fast_ema_latest, slow_ema_latest))

\* Variant: the whole cash is spent.
buy_amount_allCash(cash) == cash * 100

\* buy_amount = cash * POSITION_SIZE, in hundredths of a cash unit.
buy_amount(cash) == cash * POSITION_SIZE

\* position_manager.open_1x_long(pair, buy_amount, stop_loss_pct=STOP_LOSS_PCT):
\* the n trade records the collaborator hands back.
open_1x_long(amount, stop_loss_pct, n) ==
    [j \in 1..n |-> [kind |-> "open", size |-> amount, stop_loss_pct |-> stop_loss_pct]]

\* position_manager.close_all(): the n trade records the collaborator hands back.
close_all(n) ==
    [j \in 1..n |-> [kind |-> "close", size |-> 0, stop_loss_pct |-> 0]]

\* assert len(new_trades) == 1
CloseAssertion(new_trades) == Len(new_trades) = 1

\* Variant: the two values are plotted under each other's name.
plot_indicators_swapped(slow_ema_latest, fast_ema_latest) ==
    << [name |-> "Slow EMA", value |-> fast_ema_latest, colour |-> "green"],
       [name |-> "Fast EMA", value |-> slow_ema_latest, colour |-> "red"] >>

\* The two plot_indicator calls.
plot_indicators(slow_ema_latest, fast_ema_latest) ==
    << [name |-> "Slow EMA", value |-> slow_ema_latest, colour |-> "green"],
       [name |-> "Fast EMA", value |-> fast_ema_latest, colour |-> "red"] >>

NoSignals == [slow_ema_crossover |-> FALSE, slow_ema_crossunder |-> FALSE,
              fast_ema_crossunder |-> FALSE]

\* What one call of decide_trades does, as a record:
\*   error    "none", or the exception that ends the call
\*   trades   the returned list (empty when the call raises)
\*   invoked  the PositionManager operation the call made
\*   branch   which of the two branches of the position test ran
\*   plots    the indicator values sent to state.visualisation
\*   calls    the collaborator operations invoked, in program order
\*   failed   the collaborator operation that raised, "none" if none did
NoResult == [error |-> "none", trades |-> <<>>, invoked |-> "none",
             branch |-> "none", plots |-> <<>>, signals |-> NoSignals,
             slow_ema_latest |-> NaN, fast_ema_latest |-> NaN,
             calls |-> <<>>, failed |-> "none"]

\* decide_trades up to the choice it makes: the EMA series, the early
\* returns, the three flags, the position test and the condition of the
\* branch taken.  invoked names the PositionManager call the rest will make.
Decision(ts, close_prices, open_positions) ==
    LET slow_ema_series == ema(close_prices, SLOW_EMA_CANDLE_COUNT)
        fast_ema_series == ema(close_prices, FAST_EMA_CANDLE_COUNT)
    IN
    IF InsufficientData(slow_ema_series, fast_ema_series) THEN NoResult
    ELSE IF slow_ema_series.none \/ fast_ema_series.none
    THEN [NoResult EXCEPT !.error = "TypeError"]      \* None has no .iloc
    ELSE IF Len(close_prices) < 3 \/ Len(slow_ema_series.vals) < 2
            \/ Len(fast_ema_series.vals) < 2
    THEN [NoResult EXCEPT !.error = "IndexError"]     \* iloc[-3] out of bounds
    ELSE
    LET slow_ema_latest == Iloc(slow_ema_series.vals, 1)
        fast_ema_latest == Iloc(fast_ema_series.vals, 1)
        price_latest    == Val(Iloc(close_prices, 1), 1)
        sig == [slow_ema_crossover  |-> slow_ema_crossover(close_prices, slow_ema_series.vals),
                slow_ema_crossunder |-> slow_ema_crossunder(close_prices, slow_ema_series.vals),
                fast_ema_crossunder |-> fast_ema_crossunder(close_prices, fast_ema_series.vals)]
        base == [NoResult EXCEPT !.signals = sig,
                                 !.slow_ema_latest = slow_ema_latest,
                                 !.fast_ema_latest = fast_ema_latest]
    IN
    IF ~is_any_open(open_positions)
    THEN IF OpenCondition(sig.slow_ema_crossunder, price_latest, slow_ema_latest, ts)
         THEN [base EXCEPT !.branch = "open_check", !.invoked = "open"]
         ELSE [base EXCEPT !.branch = "open_check"]
    ELSE IF CloseCondition(sig.slow_ema_crossover, sig.fast_ema_crossunder,
                           fast_ema_latest, slow_ema_latest)
         THEN [base EXCEPT !.branch = "close_check", !.invoked = "close"]
         ELSE [base EXCEPT !.branch = "close_check"]

\* The collaborator operations a cycle with decision d invokes when none of
\* them raises: the pair, the cash and the candles at the top, the position
\* test once the data checks are passed, then the call of the branch taken.
CollaboratorCalls(d) ==
    <<"get_single", "get_current_cash", "get_single_pair_data">>
    \o (IF d.branch = "none" THEN <<>> ELSE <<"is_any_open">>)
    \o (IF d.invoked = "open" THEN <<"open_1x_long">>
        ELSE IF d.invoked = "close" THEN <<"close_all">>
        ELSE <<>>)

\* Position of operation op in the sequence calls.
IndexOf(calls, op) == CHOOSE i \in 1..Len(calls) : calls[i] = op

Raise_retried(d, op) ==
    LET calls == CollaboratorCalls(d)
    IN  [NoResult EXCEPT !.error = "CollaboratorError",
                         !.calls = Append(SubSeq(calls, 1, IndexOf(calls, op)), op),
                         !.failed = op]

\* decide_trades when collaborator operation op raises: decide_trades has no
\* try/except, so the calls before op have been made, op has been made once,
\* nothing after it runs and the exception leaves the function.
Raise(d, op) ==
    LET calls == CollaboratorCalls(d)
    IN  [NoResult EXCEPT !.error = "CollaboratorError",
                         !.calls = SubSeq(calls, 1, IndexOf(calls, op)),
                         !.failed = op]

\* The rest of decide_trades after decision d: the PositionManager call with
\* the cash read at the top of the call, the assertion of the sell branch,
\* the two plots and the return.  nRecords is the number of trade records the
\* PositionManager call hands back.
decide_trades(d, cash, nRecords) ==
    IF d.branch = "none" THEN [d EXCEPT !.calls = CollaboratorCalls(d)]
    ELSE LET new_trades ==
                 IF d.invoked = "open"
                 THEN open_1x_long(buy_amount(cash), STOP_LOSS_PCT, nRecords)
                 ELSE IF d.invoked = "close" THEN close_all(nRecords)
                 ELSE <<>>
         IN  IF d.invoked = "close" /\ ~CloseAssertion(new_trades)
             THEN [d EXCEPT !.error = "AssertionError", !.calls = CollaboratorCalls(d)]
             ELSE [d EXCEPT !.trades = new_trades, !.calls = CollaboratorCalls(d),
                            !.plots = plot_indicators(d.slow_ema_latest, d.fast_ema_latest)]

\* Numbers of trade records the PositionManager call of decision d can hand
\* back: one or more when a call is made.
RecordCounts(d) == IF d.invoked = "none" THEN {0} ELSE 1..MaxRecords

\* Cash amounts get_current_cash can report in a cycle with decision d.  The
\* amount only reaches open_1x_long, so one amount stands for all of them in
\* a cycle that opens nothing.
CashAmounts(d) == IF d.invoked = "open" THEN 1..MaxCash ELSE {1}

\* The collaborator operations that can raise in a cycle with decision d:
\* those the cycle reaches.
FailPoints(d) == { CollaboratorCalls(d)[i] : i \in 1..Len(CollaboratorCalls(d)) }

\* ------------------------------------------------------------------ state
VARIABLES
    pc,             \* "idle" between cycles, "returned" / "aborted" after decide_trades,
                    \* "failed" after a decide_trades in which a collaborator raised,
                    \* "applied" once the runner has executed the returned trades
    timestamp,      \* the cycle's timestamp
    position,       \* number of open positions in state.portfolio
    positionBefore, \* number of open positions when the cycle started
    stopped,        \* the stop-loss closed the position since the last cycle
    candles,        \* close prices of the window fetched in this cycle
    cash,           \* state.portfolio.get_current_cash() of this cycle
    result,         \* what decide_trades did in this cycle
    applied,        \* intent the runner executed in this cycle
    prevApplied,    \* intent the runner executed in the previous cycle
    lastIntent      \* last PositionManager call the cycles of this run made ("none"
                    \* before the first), as known once its cycle is over; "stop_loss"
                    \* from the moment the stop-loss has closed a position, after
                    \* which the intents are no longer followed

vars == <<pc, timestamp, position, positionBefore, stopped, candles, cash, result,
          applied, prevApplied, lastIntent>>

\* Close prices of the candles: two price levels.
Prices == {1, 2}

\* Windows the candle source can return: chronological, at most BATCH_SIZE long.
WindowLengths == { n \in 0..MaxCandles : n <= BATCH_SIZE }

Init ==
    /\ pc = "idle"
    /\ timestamp = 0
    /\ position = 0
    /\ positionBefore = 0
    /\ stopped = FALSE
    /\ candles = <<>>
    /\ cash = 0
    /\ result = NoResult
    /\ applied = "none"
    /\ prevApplied = "none"
    /\ lastIntent = "none"

\* One call of decide_trades by the cycle clock, every collaborator answering.
DecideTrades ==
    /\ pc = "idle"
    /\ \E n \in WindowLengths : \E w \in [1..n -> Prices] :
          \E d \in {Decision(timestamp, w, position)} :
              \E c \in CashAmounts(d) : \E nRecords \in RecordCounts(d) :
                 \E r \in {decide_trades(d, c, nRecords)} :
                     /\ candles' = w
                     /\ cash' = c
                     /\ result' = r
                     /\ pc' = IF r.error = "none" THEN "returned" ELSE "aborted"
    /\ positionBefore' = position
    /\ UNCHANGED <<timestamp, position, stopped, applied, prevApplied, lastIntent>>

\* One call of decide_trades in which a collaborator operation raises.  The
\* cash and the candles it had read are locals that go with its frame.
DecideTradesFails ==
    /\ pc = "idle"
    /\ \E n \in WindowLengths : \E w \in [1..n -> Prices] :
          \E d \in {Decision(timestamp, w, position)} :
              \E op \in FailPoints(d) :
                 /\ result' = Raise(d, op)
                 /\ pc' = "failed"
    /\ candles' = <<>>
    /\ cash' = 0
    /\ positionBefore' = position
    /\ UNCHANGED <<timestamp, position, stopped, applied, prevApplied, lastIntent>>

\* The runner executes the returned trades: an open adds the position that
\* open_1x_long created, a close empties the portfolio's open positions.
\* The returned list is consumed.
ApplyTrades ==
    /\ pc = "returned"
    /\ pc' = "applied"
    /\ position' = IF result.invoked = "open" THEN position + 1
                   ELSE IF result.invoked = "close" THEN 0
                   ELSE position
    /\ applied' = result.invoked
    /\ lastIntent' = IF result.invoked = "none" \/ lastIntent = "stop_loss" THEN lastIntent
                     ELSE result.invoked
    /\ candles' = <<>>
    /\ cash' = 0
    /\ result' = NoResult
    /\ UNCHANGED <<timestamp, positionBefore, stopped, prevApplied>>

\* The cycle clock moves to the next cycle, also after a cycle that raised.
NextCycle ==
    /\ pc \in {"applied", "aborted", "failed"}
    /\ timestamp < MaxTime
    /\ pc' = "idle"
    /\ timestamp' = timestamp + 1
    /\ prevApplied' = applied
    /\ applied' = "none"
    /\ stopped' = FALSE
    /\ candles' = <<>>
    /\ cash' = 0
    /\ lastIntent' = IF pc = "aborted" /\ result.invoked # "none" /\ lastIntent # "stop_loss"
                     THEN result.invoked
                     ELSE lastIntent
    /\ result' = NoResult
    /\ UNCHANGED <<position, positionBefore>>

\* The stop-loss attached at entry closes the position between two cycles.
StopLoss ==
    /\ pc = "idle"
    /\ position > 0
    /\ position' = 0
    /\ stopped' = TRUE
    /\ lastIntent' = "stop_loss"
    /\ UNCHANGED <<pc, timestamp, positionBefore, candles, cash, result, applied, prevApplied>>

Next == DecideTrades \/ DecideTradesFails \/ ApplyTrades \/ NextCycle \/ StopLoss

Spec == Init /\ [][Next]_vars

TypeOK ==
    /\ pc \in {"idle", "returned", "aborted", "failed", "applied"}
    /\ timestamp \in 0..MaxTime
    /\ position \in Nat
    /\ stopped \in BOOLEAN
    /\ applied \in {"none", "open", "close"}
    /\ prevApplied \in {"none", "open", "close"}
    /\ lastIntent \in {"none", "open", "close", "stop_loss"}

\* ----------------------------------------------------------------- claims
\* A cycle whose call of decide_trades has ended (returned or raised) and whose
\* window and result are still on display.
CycleDone == pc \in {"returned", "aborted"}

price_latest_of(w) == Val(Iloc(w, 1), 1)

\* C1: the trade list returned by decide_trades never has more than one
\* record, whatever the window, the position and the timestamp.
C1_AtMostOneTrade == Len(result.trades) <= 1

\* C2: at most one position is open at any time, with every returned intent
\* applied and the stop-loss free to close the position between cycles.
C2_AtMostOnePosition == position \in {0, 1}

C2_Witness == pc = "applied" /\ applied = "open" /\ position = 1

\* C3: close_all is invoked only in a cycle that read an open position and
\* open_1x_long only in a cycle that read none.
C3_IntentMatchesState ==
    CycleDone =>
        /\ result.invoked = "close" => positionBefore > 0
        /\ result.invoked = "open" => positionBefore = 0

C3_Witness == CycleDone /\ result.invoked = "close" /\ positionBefore = 1

\* The EMA computation reports None for a window, or hands back a series of
\* fewer than 2 points.
EmaUndefined(w) ==
    \E slow \in {ema(w, SLOW_EMA_CANDLE_COUNT)} : \E fast \in {ema(w, FAST_EMA_CANDLE_COUNT)} :
        \/ slow.none \/ fast.none
        \/ Len(slow.vals) < 2 \/ Len(fast.vals) < 2

\* C4: when the EMA computation reports None for either window or a series
\* has fewer than 2 points, decide_trades returns (it does not raise) an
\* empty list and invokes nothing, in every position state and at START_AT too.
C4_UndefinedEmaNoTrades ==
    CycleDone =>
        \/ /\ pc = "returned"
           /\ result.trades = <<>>
           /\ result.invoked = "none"
        \/ ~EmaUndefined(candles)

C4_Witness ==
    /\ pc = "returned" /\ EmaUndefined(candles)
    /\ Len(candles) >= FAST_EMA_CANDLE_COUNT
    /\ positionBefore = 1 /\ timestamp = START_AT

\* Each EMA series of the window has two defined (non-NaN) trailing values.
TwoDefinedPoints(w) ==
    /\ ~EmaUndefined(w)
    /\ \A L \in {SLOW_EMA_CANDLE_COUNT, FAST_EMA_CANDLE_COUNT} :
          \E series \in {ema(w, L).vals} :
              /\ ~Iloc(series, 1).nan
              /\ ~Iloc(series, 2).nan

\* C5: a window that does not give each EMA two defined trailing values
\* produces no trade intent, the bootstrap cycle included.
C5_NoTradeWithoutTwoPoints ==
    (CycleDone /\ ~TwoDefinedPoints(candles)) =>
        /\ result.invoked = "none"
        /\ result.trades = <<>>

C8_NoCloseWhenFastAboveSlow ==
    ( /\ CycleDone /\ result.branch = "close_check"
      /\ result.signals.fast_ema_crossunder
      /\ Gt(result.fast_ema_latest, result.slow_ema_latest)
      /\ ~result.signals.slow_ema_crossover )
    => result.invoked # "close"

\* C8 amended: in a LONG cycle where fast_crossunder holds, the fast EMA is
\* not above the slow EMA and slow_crossover does not hold, no close is made
\* and the cycle returns an empty list, so the position stays LONG.
C8_NoCloseWhenFastNotAboveSlow ==
    ( /\ CycleDone /\ result.branch = "close_check"
      /\ result.signals.fast_ema_crossunder
      /\ ~Gt(result.fast_ema_latest, result.slow_ema_latest)
      /\ ~result.signals.slow_ema_crossover )
    => /\ result.invoked = "none"
       /\ pc = "returned"
       /\ result.trades = <<>>
       /\ position = positionBefore

C8_Witness ==
    /\ pc = "returned" /\ result.branch = "close_check"
    /\ result.signals.fast_ema_crossunder
    /\ Lt(result.fast_ema_latest, result.slow_ema_latest)
    /\ result.invoked = "none"
    /\ position = 1

\* C9: a cycle that raises leaves the position as it was before the cycle,
\* for the next cycle too, and has handed no intent to the PositionManager.
C9_AbortedCycleHasNoEffect ==
    [][ /\ pc' = "aborted" => (position' = positionBefore' /\ result'.invoked = "none")
        /\ pc = "aborted" => position' = position ]_vars

\* C10 as stated: the cycle after an applied open reads LONG and takes the
\* close-check branch; the cycle after an applied close reads FLAT and takes
\* the open-check branch.
C10_NextCycleReadsAppliedIntent ==
    (CycleDone /\ result.branch # "none") =>
        /\ prevApplied = "open"  => (positionBefore > 0 /\ result.branch = "close_check")
        /\ prevApplied = "close" => (positionBefore = 0 /\ result.branch = "open_check")

\* C10 amended: the same, for an applied open, provided the stop-loss has not
\* closed the position between the two cycles.
C10_NextCycleReadsAppliedIntentUnlessStopped ==
    (CycleDone /\ result.branch # "none") =>
        /\ (prevApplied = "open" /\ ~stopped) =>
              (positionBefore > 0 /\ result.branch = "close_check")
        /\ prevApplied = "close" => (positionBefore = 0 /\ result.branch = "open_check")

C10_Witness ==
    /\ CycleDone /\ prevApplied = "open" /\ ~stopped
    /\ result.branch = "close_check"

\* An insufficient-data window: fewer candles than the slow window, or an EMA
\* that is None or shorter than 2 points.
InsufficientWindow(w) == Len(w) < SLOW_EMA_CANDLE_COUNT \/ EmaUndefined(w)

\* C12: an insufficient-data cycle changes nothing: neither open_1x_long nor
\* close_all is invoked, no indicator value goes to the visualisation, and
\* the position is the one the cycle started with, also after the runner has
\* executed the (empty) returned list.
C12_InsufficientDataChangesNothing ==
    /\ (CycleDone /\ InsufficientWindow(candles)) =>
          /\ result.invoked = "none"
          /\ result.plots = <<>>
          /\ position = positionBefore
    /\ (pc = "applied" /\ applied = "none") => position = positionBefore

C12_Witness ==
    /\ pc = "returned"
    /\ Len(candles) = SLOW_EMA_CANDLE_COUNT - 1
    /\ positionBefore = 1 /\ position = 1
    /\ result.plots = <<>>

\* The two indicator values of a window, as the visualisation must get them.
ExpectedPlots(w) ==
    << [name |-> "Slow EMA", colour |-> "green",
        value |-> Iloc(ema(w, SLOW_EMA_CANDLE_COUNT).vals, 1)],
       [name |-> "Fast EMA", colour |-> "red",
        value |-> Iloc(ema(w, FAST_EMA_CANDLE_COUNT).vals, 1)] >>

\* C13 as stated: every cycle that passes the insufficient-data checks sends
\* the latest slow EMA ("Slow EMA", green) and the latest fast EMA ("Fast
\* EMA", red) to the visualisation exactly once each, whatever the position
\* and the intent, and they are the values the decision used.
C13_AlwaysPlotsBothEmas ==
    (CycleDone /\ ~EmaUndefined(candles)) =>
        /\ result.plots = ExpectedPlots(candles)
        /\ result.plots[1].value = result.slow_ema_latest
        /\ result.plots[2].value = result.fast_ema_latest

\* C13 amended: the same for every cycle that passes the insufficient-data
\* checks and returns; a cycle that fails the checks and a cycle that raises
\* have plotted nothing.
C13_ReturningCyclePlotsBothEmas ==
    /\ pc = "returned" =>
          \/ result.plots = <<>> /\ EmaUndefined(candles)
          \/ /\ Len(result.plots) = 2
             /\ result.plots[1].value = result.slow_ema_latest
             /\ result.plots[2].value = result.fast_ema_latest
             /\ result.plots = ExpectedPlots(candles)
    /\ (pc = "aborted") => result.plots = <<>>

C13_Witness ==
    /\ pc = "returned" /\ result.invoked = "close"
    /\ Len(result.plots) = 2
    /\ result.plots[1].value # result.plots[2].value

\* C14: every record of an open carries size POSITION_SIZE (0.70) times the
\* cash read in the same cycle and stop_loss_pct STOP_LOSS_PCT (0.993), for
\* every cash amount, on the crossunder path and on the bootstrap path.
C14_OpenSizeAndStopLoss ==
    (CycleDone /\ result.invoked = "open") =>
        /\ result.trades # <<>>
        /\ \A j \in 1..Len(result.trades) :
              /\ result.trades[j].kind = "open"
              /\ result.trades[j].size = 70 * cash
              /\ result.trades[j].stop_loss_pct = 993

C14_Witness ==
    /\ pc = "returned" /\ result.invoked = "open"
    /\ ~result.signals.slow_ema_crossunder
    /\ timestamp = START_AT
    /\ cash = MaxCash
    /\ result.trades[1].size = 70 * MaxCash

\* Number of times operation op occurs in the sequence calls.
Occurrences(calls, op) == Cardinality({ i \in 1..Len(calls) : calls[i] = op })

\* C15: when a collaborator operation raises during a cycle, the exception
\* leaves decide_trades as it is: the cycle returns no trade list and plots
\* nothing, the failed operation is the last one invoked, and no collaborator
\* operation has been invoked more than once.
C15_CollaboratorFailurePropagates ==
    result.failed # "none" =>
        /\ pc = "failed"
        /\ result.error = "CollaboratorError"
        /\ result.trades = <<>> /\ result.plots = <<>>
        /\ position = positionBefore
        /\ result.calls # <<>>
        /\ result.calls[Len(result.calls)] = result.failed
        /\ \A i \in 1..Len(result.calls) : Occurrences(result.calls, result.calls[i]) = 1

C15_Witness ==
    /\ pc = "failed"
    /\ result.failed = "close_all"
    /\ result.calls = <<"get_single", "get_current_cash", "get_single_pair_data",
                        "is_any_open", "close_all">>

\* Price p strictly below / strictly above EMA value e; false when e is NaN.
PriceBelow(p, e) == ~e.nan /\ p * e.den < e.num
PriceAbove(p, e) == ~e.nan /\ p * e.den > e.num

\* The three flags of a window by their reference definitions, with the
\* offsets written as positions counted from the start of the window.
ReferenceSignalsOf(w, n, slow, fast) ==
    [slow_ema_crossover  |-> PriceBelow(w[n - 2], slow[n - 1]) /\ PriceAbove(w[n], slow[n]),
     slow_ema_crossunder |-> PriceAbove(w[n - 1], slow[n - 1]) /\ PriceBelow(w[n], slow[n]),
     fast_ema_crossunder |-> PriceAbove(w[n - 1], fast[n - 1]) /\ PriceBelow(w[n], fast[n])]

ReferenceSignals(w) ==
    CHOOSE ref \in { ReferenceSignalsOf(w, Len(w), slow, fast) :
                        slow \in {ema(w, SLOW_EMA_CANDLE_COUNT).vals},
                        fast \in {ema(w, FAST_EMA_CANDLE_COUNT).vals} } : TRUE

\* C16: in every cycle that passed the data checks the three flags equal
\* their reference definitions: slow_crossover compares price[-3] with
\* slowEMA[-2], the two crossunders compare price[-2] with EMA[-2], each
\* together with price[-1] against EMA[-1], all comparisons strict.
C16_FlagsMatchReference ==
    (CycleDone /\ result.branch # "none") =>
        \E ref \in {ReferenceSignals(candles)} : result.signals = ref

C16_Witness ==
    /\ CycleDone /\ result.branch # "none"
    /\ result.signals.slow_ema_crossover
    /\ Iloc(candles, 2) # Iloc(candles, 3)
    /\ Len(candles) > SLOW_EMA_CANDLE_COUNT

\* C17: in a run in which every returned intent is applied and the stop-loss
\* has closed nothing, the intents the cycles emit alternate, starting with
\* an open: an open follows no intent or a close, a close follows an open.
C17_IntentsAlternate ==
    (CycleDone /\ lastIntent # "stop_loss") =>
        /\ result.invoked = "open"  => lastIntent \in {"none", "close"}
        /\ result.invoked = "close" => lastIntent = "open"

BootstrapFired == CycleDone /\ result.invoked = "open" /\ ~result.signals.slow_ema_crossunder

====
